---------------------------- MODULE Spec2Model ----------------------------
(***************************************************************************)
(* Process lifecycle and per-process address-space manager of the airix    *)
(* kernel (src/kernel/process.c): the PID allocator, the process record    *)
(* pool, exec, clone, exit and destroy.                                    *)
(*                                                                         *)
(* Every C function is an operator that takes the machine state as a       *)
(* record s and returns the machine state after the call, with the         *)
(* function's return value in s.ret.  One action of Next is one call of a  *)
(* public entry point, run to completion (the kernel is single-core and    *)
(* non-preemptive while inside this code).                                 *)
(*                                                                         *)
(* Physical frames are numbered 1..NumFrames, 0 is the null/failure value. *)
(* A page directory or page table is a function defined on its mapped      *)
(* indices only; a walk "for i in 0..N-1: if mapped(i)" visits the mapped  *)
(* indices in increasing order, the unmapped ones being no-ops.            *)
(* The PID bitmap is indexed by bit number: bit (pid % 8) of byte          *)
(* (pid / 8) is pid_map[pid].  PROC_MAX_NUM is a multiple of 8, so that    *)
(* the bitmap has a bit for every PID.                                     *)
(***************************************************************************)
EXTENDS Integers, Sequences, FiniteSets, TLC

\* ------------------------------------------------------------------ sizes
\* Number of allocatable physical frames.
NumFrames == 14
\* Number of page-directory slots below KERNEL_BASE.
UserTables == 3
\* Largest index of a frame allocation that is made to fail in one call.
MaxFailPoint == 7
\* How many PIDs alloc_pid has handed out since boot when the lifecycle
\* specifications stop acquiring records.
MaxIssued == 3
\* Largest number of record caches proc_initialize creates.
MaxCaches == 2
\* Largest number of allocator calls one CPU makes without a lock.
MaxCalls == 2

\* --------------------------------------------------------------- constants
\* The smallest PROC_MAX_NUM for which pid_map[PROC_MAX_NUM / 8] has a byte.
PROC_MAX_NUM == 8
PAGE_SIZE == 4096
NUM_PTE == 1024
KERNEL_BASE == UserTables * (NUM_PTE * PAGE_SIZE)
PROC_KERNEL_STACK == KERNEL_BASE - 16 * PAGE_SIZE
\* PROC_USER_STACK within a page-table span of the kernel stack.
PROC_USER_STACK_near == KERNEL_BASE - 64 * PAGE_SIZE
PROC_USER_STACK == KERNEL_BASE - 1024 * PAGE_SIZE

VMM_WRITABLE == 2
VMM_USER == 4

PROC_STATE_RUNNING == 1
PROC_STATE_DEAD == 2

\* Memory for records: one more record than there are PIDs, so that both
\* the pool and the PID space can be the resource that runs out.
PoolSize == PROC_MAX_NUM + 1

Frames == 1 .. NumFrames
Slots == 1 .. PoolSize
Pids == 0 .. (PROC_MAX_NUM - 1)
\* char pid_map[PROC_MAX_NUM / 8]: the bits the bitmap has.
PidBits == 0 .. (8 * (PROC_MAX_NUM \div 8) - 1)

\* The kernel's own page table, shared by every address space; its frame
\* is not one the frame allocator hands out.
KernelTable == NumFrames + 1
\* A page of the kernel, mapped by the kernel's page table.
KernelPage == NumFrames + 2
KernelFrames == {KernelTable, KernelPage}
KernelPde == KERNEL_BASE \div (NUM_PTE * PAGE_SIZE)

\* ----------------------------------------------------------------- helpers
MinOf(S) == CHOOSE x \in S : \A y \in S : x <= y

\* f with key k mapped to v / with key k removed (sparse tables).
MapSet(f, k, v) == [x \in (DOMAIN f) \cup {k} |-> IF x = k THEN v ELSE f[x]]
MapDel(f, k) == [x \in (DOMAIN f) \ {k} |-> f[x]]
EmptyMap == [x \in {} |-> 0]

\* Sequencing of calls: K applied to the machine state v a call returned.
Bind(v, K(_)) == K(v)

\* struct process after memset(proc, 0, sizeof(*proc)).
ZeroProc ==
  [pid |-> 0, state |-> 0, status |-> 0, page_dir |-> 0, mem_pages |-> 0,
   entry |-> 0, kernel_stack |-> 0, user_stack |-> 0, context |-> 0,
   parent |-> 0]

\* What a slot of proc_cache holds while it is free: the bytes of whatever
\* was there before.  No code reads them before memset, so one stale
\* pattern stands for all of them: a dead process with dangling pointers.
StaleProc ==
  [pid |-> 1, state |-> 2, status |-> 1, page_dir |-> 1, mem_pages |-> 1,
   entry |-> PAGE_SIZE, kernel_stack |-> PAGE_SIZE, user_stack |-> PAGE_SIZE,
   context |-> 1, parent |-> 1]

\* Exit statuses and saved-context snapshots that occur.
Statuses == {0, 1}
Contexts == {0, 1}

\* -------------------------------------------------------------- variables
VARIABLES
  pid_map,   \* PID bitmap: pid -> 0 / 1
  pid_gen,   \* PID generator (rotating cursor)
  proc_cache,\* the record cache: 0 (NULL), or the number of the cache
  procs,     \* memory of the caches: slot -> struct process (stale when free)
  slab,      \* slots allocated from proc_cache and not freed
  orphans,   \* slots allocated from a cache proc_cache no longer points to
  free,      \* frames the frame allocator holds free
  pd,        \* frame -> page directory stored in it: pde -> [tab, flag]
  pt,        \* frame -> page table stored in it: pte -> [page, flag]
  mem,       \* frame -> content of the data page stored in it
  runq,      \* the scheduler's runnable set (slots passed to sched_add)
  panic,     \* "none", or the consistency check that halted the kernel
  ev,        \* the last call: entry point, arguments, result, trace
  cpu,       \* per CPU, the allocator call it is in and the PIDs it holds
  overlap,   \* two CPUs have been inside the allocator at the same time
  build      \* how the compiler ordered the accesses of alloc_pid

vars ==
  <<pid_map, pid_gen, proc_cache, procs, slab, orphans, free, pd, pt, mem,
    runq, panic, ev, cpu, overlap, build>>


\* The machine state as the C functions see it, with the inputs of the call
\* (failn: which frame allocation of this call fails, 0 for none; slabfail:
\* whether slab_alloc reports an exhausted cache) and the call's trace.
Machine(failn, slabfail) ==
  [pid_map |-> pid_map, pid_gen |-> pid_gen, proc_cache |-> proc_cache,
   procs |-> procs, slab |-> slab, orphans |-> orphans,
   free |-> free, pd |-> pd, pt |-> pt, mem |-> mem, runq |-> runq,
   panic |-> panic,
   ret |-> 0, failn |-> failn, slabfail |-> slabfail,
   nalloc |-> 0,      \* frames handed out during the call
   nfree |-> 0,       \* frames given back during the call
   refree |-> FALSE,  \* a frame was given back that was already free
   pmmfail |-> FALSE, \* a frame allocation of the call failed
   victim |-> 0,      \* the record passed to proc_free
   owned |-> -1,      \* its mem_pages when proc_free was entered
   reclaimed |-> 0,   \* frames given back by proc_free
   leak |-> -1,       \* mem_pages read by the leak check of proc_free
   cmp |-> <<>>,      \* <<clone, source>> mem_pages read by proc_clone
   fresh |-> <<>>,    \* the records proc_alloc returned, as returned
   added |-> <<>>,    \* the records passed to sched_add, as passed
   freed |-> <<>>,    \* the frames given back, in order
   vstate |-> -1,     \* the state of the record when proc_free was entered
   vframes |-> {},    \* the frames its address space held then
   vmapped |-> -1,    \* the number of mappings its address space held then
   arg |-> -1,        \* the status passed to proc_exit, the PID to free_pid
   probes |-> 0,      \* the candidates alloc_pid probed
   retired |-> {}]    \* the records sched found DEAD, with their status

Ret(s, v) == [s EXCEPT !.ret = v]

\* ------------------------------------------------- physical frame allocator
\* pmm_alloc_page_address: a free frame (the lowest), or 0.
pmm_alloc_page_address(s) ==
  IF s.failn = 1 \/ s.free = {}
  THEN [s EXCEPT !.ret = 0, !.failn = 0, !.pmmfail = TRUE]
  ELSE LET f == MinOf(s.free) IN
       [s EXCEPT !.ret = f, !.free = @ \ {f},
                 !.failn = IF @ > 1 THEN @ - 1 ELSE @,
                 !.nalloc = @ + 1]

\* pmm_free_page_address: the frame is free again.  What a free frame
\* holds is not kept: nothing reads it before it is allocated and
\* initialised again.
pmm_free_page_address(s, paddr) ==
  [s EXCEPT !.free = @ \cup {paddr}, !.ret = 0,
            !.nfree = @ + 1, !.refree = @ \/ (paddr \in s.free),
            !.freed = Append(@, paddr),
            !.mem[paddr] = 0, !.pd[paddr] = EmptyMap, !.pt[paddr] = EmptyMap]

\* ------------------------------------------------- address-space primitives
\* vmm_alloc_vaddr_space: a frame holding an empty page directory, or 0.
vmm_alloc_vaddr_space(s) ==
  Bind(pmm_alloc_page_address(s), LAMBDA s1 :
    IF s1.ret = 0 THEN s1 ELSE [s1 EXCEPT !.pd[s1.ret] = EmptyMap])

vmm_free_vaddr_space(s, page_dir) == pmm_free_page_address(s, page_dir)

\* vmm_alloc_page_table: a frame holding an empty page table, or 0.
vmm_alloc_page_table(s) ==
  Bind(pmm_alloc_page_address(s), LAMBDA s1 :
    IF s1.ret = 0 THEN s1 ELSE [s1 EXCEPT !.pt[s1.ret] = EmptyMap])

vmm_free_page_table(s, page_tab) == pmm_free_page_address(s, page_tab)

\* vmm_get_page_table_index: <<table, flag>> at directory slot pde, table 0
\* when the slot is empty.
vmm_get_page_table_index(s, page_dir, pde) ==
  IF pde \in DOMAIN s.pd[page_dir]
  THEN <<s.pd[page_dir][pde].tab, s.pd[page_dir][pde].flag>>
  ELSE <<0, 0>>

\* vmm_get_page_index: <<frame, flag>> at table slot pte, frame 0 when empty.
vmm_get_page_index(s, page_tab, pte) ==
  IF pte \in DOMAIN s.pt[page_tab]
  THEN <<s.pt[page_tab][pte].page, s.pt[page_tab][pte].flag>>
  ELSE <<0, 0>>

vmm_map_page_table_index(s, page_dir, pde, page_tab, flag) ==
  [s EXCEPT !.pd[page_dir] = MapSet(@, pde, [tab |-> page_tab, flag |-> flag])]

vmm_map_page_index(s, page_tab, pte, paddr, flag) ==
  [s EXCEPT !.pt[page_tab] = MapSet(@, pte, [page |-> paddr, flag |-> flag])]

\* vmm_unmap_page_table_index: clears directory slot pde, returns its table.
vmm_unmap_page_table_index(s, page_dir, pde) ==
  LET e == vmm_get_page_table_index(s, page_dir, pde) IN
  [s EXCEPT !.pd[page_dir] = MapDel(@, pde), !.ret = e[1]]

\* vmm_unmap_page_index: clears table slot pte, returns its frame.
vmm_unmap_page_index(s, page_tab, pte) ==
  LET e == vmm_get_page_index(s, page_tab, pte) IN
  [s EXCEPT !.pt[page_tab] = MapDel(@, pte), !.ret = e[1]]

PdeOf(vaddr) == vaddr \div (NUM_PTE * PAGE_SIZE)
PteOf(vaddr) == (vaddr \div PAGE_SIZE) % NUM_PTE

\* vmm_map: maps paddr at vaddr; returns the number of page tables it had to
\* allocate (0 or 1), or -1 when that allocation fails.
vmm_map(s, page_dir, vaddr, paddr, flag) ==
  LET e == vmm_get_page_table_index(s, page_dir, PdeOf(vaddr)) IN
  IF e[1] # 0
  THEN Ret(vmm_map_page_index(s, e[1], PteOf(vaddr), paddr, flag), 0)
  ELSE Bind(vmm_alloc_page_table(s), LAMBDA s1 :
         IF s1.ret = 0 THEN Ret(s1, -1)
         ELSE LET tab == s1.ret IN
              Ret(vmm_map_page_index(
                    vmm_map_page_table_index(s1, page_dir, PdeOf(vaddr),
                                             tab, flag),
                    tab, PteOf(vaddr), paddr, flag),
                  1))

\* pg_copy_kernel_space: enters the kernel's shared page table in the
\* directory, above the user-space half.
pg_copy_kernel_space(s, page_dir) ==
  vmm_map_page_table_index(s, page_dir, KernelPde, KernelTable, VMM_WRITABLE)


\* ------------------------------------------------- address-space contents
\* The frames the address space rooted at directory page_dir holds below
\* the kernel's half: the directory, its page tables, their pages.
TablesOf(pdv, page_dir) ==
  {pdv[page_dir][i].tab : i \in {j \in DOMAIN pdv[page_dir] : j < KernelPde}}

PagesOf(pdv, ptv, page_dir) ==
  UNION {{ptv[tab][i].page : i \in DOMAIN ptv[tab]} :
           tab \in TablesOf(pdv, page_dir)}

FramesOf(pdv, ptv, page_dir) ==
  IF page_dir = 0 THEN {}
  ELSE {page_dir} \cup TablesOf(pdv, page_dir) \cup PagesOf(pdv, ptv, page_dir)

\* The number of mappings (directory, table slots, page slots) it holds.
MappingsOf(pdv, ptv, page_dir) ==
  IF page_dir = 0 THEN 0
  ELSE LET used == {j \in DOMAIN pdv[page_dir] : j < KernelPde}
           RECURSIVE Sum(_)
           Sum(S) == IF S = {} THEN 0
                     ELSE LET j == MinOf(S) IN
                          1 + Cardinality(DOMAIN ptv[pdv[page_dir][j].tab])
                            + Sum(S \ {j})
       IN 1 + Sum(used)

\* What the process sees in user space: per directory slot the table flags
\* and per table slot the page flags and the page's content.
UserSpace(pdv, ptv, memv, page_dir) ==
  IF page_dir = 0 THEN EmptyMap
  ELSE [pde \in {j \in DOMAIN pdv[page_dir] : j < KernelPde} |->
         LET tab == pdv[page_dir][pde].tab IN
         [flag |-> pdv[page_dir][pde].flag,
          pages |-> [pte \in DOMAIN ptv[tab] |->
                      [flag |-> ptv[tab][pte].flag,
                       data |-> memv[ptv[tab][pte].page]]]]]

\* The same with the frame behind every mapping.
UserFrames(pdv, ptv, page_dir) ==
  IF page_dir = 0 THEN EmptyMap
  ELSE [pde \in {j \in DOMAIN pdv[page_dir] : j < KernelPde} |->
         LET tab == pdv[page_dir][pde].tab IN
         [tab |-> tab,
          pages |-> [pte \in DOMAIN ptv[tab] |-> ptv[tab][pte].page]]]

\* ------------------------------------------------------------ record pool
\* slab_create_kmem_cache: a new, empty cache.
slab_create_kmem_cache(s) == Ret(s, s.proc_cache + 1)

\* slab_alloc(proc_cache): the lowest slot of memory no cache has out, or
\* 0.  Through the NULL cache pointer the kernel faults.
slab_alloc(s) ==
  IF s.proc_cache = 0
  THEN [s EXCEPT !.ret = 0, !.panic = "fault"]
  ELSE IF s.slabfail \/ s.slab \cup s.orphans = Slots
       THEN Ret(s, 0)
       ELSE LET proc == MinOf(Slots \ (s.slab \cup s.orphans)) IN
            [s EXCEPT !.slab = @ \cup {proc}, !.ret = proc]

\* slab_free(proc_cache, proc): the slot is free again and holds stale bytes.
slab_free(s, proc) ==
  [s EXCEPT !.slab = @ \ {proc}, !.orphans = @ \ {proc},
            !.procs[proc] = StaleProc]

\* ------------------------------------------------------------ initialisation
\* proc_initialize: proc_cache points to a new cache; the records of the
\* cache it pointed to stay where they are, out of reach of the new one.
proc_initialize(s) ==
  Bind(slab_create_kmem_cache(s), LAMBDA s1 :
    [s1 EXCEPT !.proc_cache = s1.ret, !.orphans = @ \cup s1.slab,
               !.slab = {}, !.ret = 0])

\* ---------------------------------------------------------------- scheduler
sched_add(s, proc) ==
  [s EXCEPT !.runq = @ \cup {proc},
            !.added = Append(@, [proc |-> proc, rec |-> s.procs[proc]])]

\* sched: the scheduler switches away from the caller; a DEAD record is
\* retired from the runnable set and never resumed.
sched(s) ==
  [s EXCEPT !.runq = {q \in @ : s.procs[q].state # PROC_STATE_DEAD},
            !.retired = {[proc |-> q, status |-> s.procs[q].status] :
                           q \in {r \in s.runq :
                                    s.procs[r].state = PROC_STATE_DEAD}}]

\* ------------------------------------------------------------ PID allocator
RECURSIVE alloc_pid_loop(_, _)
\* alloc_pid that returns the PID without setting its bit.
alloc_pid_loop_unmarked(s, i) ==
  IF i >= PROC_MAX_NUM
  THEN Ret(s, -1)
  ELSE LET pid == s.pid_gen IN
       Bind([s EXCEPT !.pid_gen = (s.pid_gen + 1) % PROC_MAX_NUM,
                      !.probes = i + 1],
            LAMBDA s1 :
              IF s1.pid_map[pid] = 0
              THEN Ret(s1, pid)
              ELSE alloc_pid_loop(s1, i + 1))

\* alloc_pid that moves the cursor down instead of up.
alloc_pid_loop_backward(s, i) ==
  IF i >= PROC_MAX_NUM
  THEN Ret(s, -1)
  ELSE LET pid == s.pid_gen IN
       Bind([s EXCEPT
               !.pid_gen = (s.pid_gen + PROC_MAX_NUM - 1) % PROC_MAX_NUM,
               !.probes = i + 1],
            LAMBDA s1 :
              IF s1.pid_map[pid] = 0
              THEN [s1 EXCEPT !.pid_map[pid] = 1, !.ret = pid]
              ELSE alloc_pid_loop(s1, i + 1))

\* Lines 35-48: the scan from its i-th candidate on.
alloc_pid_loop(s, i) ==
  IF i >= PROC_MAX_NUM
  THEN Ret(s, -1)
  ELSE LET pid == s.pid_gen IN
       Bind([s EXCEPT !.pid_gen = (s.pid_gen + 1) % PROC_MAX_NUM,
                      !.probes = i + 1],
            LAMBDA s1 :
              IF s1.pid_map[pid] = 0
              THEN [s1 EXCEPT !.pid_map[pid] = 1, !.ret = pid]
              ELSE alloc_pid_loop(s1, i + 1))

\* alloc_pid scanning one candidate too few.
alloc_pid_short(s) == alloc_pid_loop(s, 1)

alloc_pid(s) == alloc_pid_loop(s, 0)

\* free_pid clearing the bit next to the PID's.
free_pid_neighbour(s, pid) ==
  [s EXCEPT !.pid_map[(pid + 1) % PROC_MAX_NUM] = 0]

free_pid(s, pid) == [s EXCEPT !.pid_map[pid] = 0]

\* ------------------------------------------------------------------ destroy
AddPages(s, proc, n) == [s EXCEPT !.procs[proc].mem_pages = @ + n]

\* The inner loop of proc_free over the slots pte.. of page_tab.
RECURSIVE free_pages(_, _, _, _)
free_pages(s, proc, page_tab, pte) ==
  LET rest == {i \in DOMAIN s.pt[page_tab] : i >= pte /\ i < NUM_PTE} IN
  IF rest = {} THEN s
  ELSE LET i == MinOf(rest) IN
       Bind(vmm_unmap_page_index(s, page_tab, i), LAMBDA s1 :
         LET paddr == s1.ret IN
         free_pages(IF paddr # 0
                    THEN AddPages(pmm_free_page_address(s1, paddr), proc, -1)
                    ELSE s1,
                    proc, page_tab, i + 1))

RECURSIVE free_tables(_, _, _, _)
\* The walk of proc_free going one directory slot too far, into the
\* kernel's half.
free_tables_kernel(s, proc, page_dir, pde) ==
  IF pde > KERNEL_BASE \div (NUM_PTE * PAGE_SIZE) THEN s
  ELSE Bind(vmm_unmap_page_table_index(s, page_dir, pde), LAMBDA s1 :
         LET page_tab == s1.ret IN
         free_tables(IF page_tab # 0
                     THEN AddPages(
                            vmm_free_page_table(
                              free_pages(s1, proc, page_tab, 0), page_tab),
                            proc, -1)
                     ELSE s1,
                     proc, page_dir, pde + 1))

\* The outer loop of proc_free over the directory slots pde.. below the
\* kernel's.
free_tables(s, proc, page_dir, pde) ==
  IF pde >= KERNEL_BASE \div (NUM_PTE * PAGE_SIZE) THEN s
  ELSE Bind(vmm_unmap_page_table_index(s, page_dir, pde), LAMBDA s1 :
         LET page_tab == s1.ret IN
         free_tables(IF page_tab # 0
                     THEN AddPages(
                            vmm_free_page_table(
                              free_pages(s1, proc, page_tab, 0), page_tab),
                            proc, -1)
                     ELSE s1,
                     proc, page_dir, pde + 1))

\* free_vaddr_space without the decrement for the directory's frame.
free_vaddr_space_uncounted(s, proc) ==
  IF s.procs[proc].page_dir # 0
  THEN LET page_dir == s.procs[proc].page_dir IN
       vmm_free_vaddr_space(free_tables(s, proc, page_dir, 0), page_dir)
  ELSE s

\* Lines 88-118: free the virtual address space.
free_vaddr_space(s, proc) ==
  IF s.procs[proc].page_dir # 0
  THEN LET page_dir == s.procs[proc].page_dir IN
       AddPages(vmm_free_vaddr_space(free_tables(s, proc, page_dir, 0),
                                     page_dir),
                proc, -1)
  ELSE s

\* release_pid that leaves the PID marked.
release_pid_kept(s, proc) == s

\* Lines 120-122: release the PID.
release_pid(s, proc) ==
  IF s.procs[proc].pid # -1 THEN free_pid(s, s.procs[proc].pid) ELSE s

\* Lines 124-128: the leak check, then the record goes back to the pool.
leak_check(s, proc) ==
  Bind([s EXCEPT !.leak = s.procs[proc].mem_pages], LAMBDA s1 :
    IF s1.procs[proc].mem_pages # 0
    THEN [s1 EXCEPT !.panic = "leak"]
    ELSE slab_free(s1, proc))

proc_free(s, proc) ==
  Bind(leak_check(
         release_pid(
           free_vaddr_space(
             [s EXCEPT
                !.victim = proc, !.owned = s.procs[proc].mem_pages,
                !.vstate = s.procs[proc].state,
                !.vframes = FramesOf(s.pd, s.pt, s.procs[proc].page_dir),
                !.vmapped = MappingsOf(s.pd, s.pt, s.procs[proc].page_dir)],
             proc),
           proc),
         proc),
       LAMBDA s1 : [s1 EXCEPT !.ret = 0, !.reclaimed = s1.nfree - s.nfree])

\* ------------------------------------------------------------------ acquire
\* proc_alloc without the memset.
memset_proc_skipped(s, proc) == s

memset_proc(s, proc) == [s EXCEPT !.procs[proc] = ZeroProc]

proc_alloc(s) ==
  Bind(slab_alloc(s), LAMBDA s0 :
    LET proc == s0.ret IN
    IF proc = 0 THEN Ret(s0, 0)
    ELSE Bind(alloc_pid(memset_proc(s0, proc)), LAMBDA s1 :
         Bind([s1 EXCEPT !.procs[proc].pid = s1.ret], LAMBDA s2 :
           IF s2.procs[proc].pid = -1
           THEN Ret(proc_free(s2, proc), 0)
           ELSE [s2 EXCEPT !.ret = proc,
                           !.fresh = Append(@, s2.procs[proc])])))


\* ------------------------------------------------------------- image loader
\* An executable image: whether its header is accepted, its entry address
\* and its loadable pages in file order (ok: whether the loader accepts the
\* segment; vaddr, data, flag: where the page goes, what it holds, how it
\* is mapped).
Seg(ok, vaddr, data, flag) ==
  [ok |-> ok, vaddr |-> vaddr, data |-> data, flag |-> flag]

Elfs ==
  { \* one segment, in a directory slot of its own
    [id |-> 1, valid |-> TRUE, entry |-> PAGE_SIZE,
     segs |-> << Seg(TRUE, PAGE_SIZE, 1, VMM_USER) >>],
    \* one segment, in the directory slot of the user stack
    [id |-> 2, valid |-> TRUE, entry |-> PROC_USER_STACK - 2 * PAGE_SIZE,
     segs |-> << Seg(TRUE, PROC_USER_STACK - 2 * PAGE_SIZE, 2,
                     VMM_USER + VMM_WRITABLE) >>],
    \* a second segment the loader rejects, after the first was mapped
    [id |-> 3, valid |-> TRUE, entry |-> PAGE_SIZE,
     segs |-> << Seg(TRUE, PAGE_SIZE, 1, VMM_USER),
                 Seg(FALSE, 2 * PAGE_SIZE, 1, VMM_USER) >>],
    \* not an executable
    [id |-> 4, valid |-> FALSE, entry |-> 0, segs |-> << >>] }

\* The loader's loop over the segments k.. of the image: a frame for the
\* page, its mapping, its bytes, and the frames it cost added to mem_pages.
RECURSIVE load_segments(_, _, _, _)
load_segments(s, elf, proc, k) ==
  IF k > Len(elf.segs) THEN Ret(s, TRUE)
  ELSE LET seg == elf.segs[k] IN
       IF ~seg.ok THEN Ret(s, FALSE)
       ELSE Bind(pmm_alloc_page_address(s), LAMBDA s1 :
              LET page == s1.ret IN
              IF page = 0 THEN Ret(s1, FALSE)
              ELSE Bind(vmm_map(s1, s1.procs[proc].page_dir, seg.vaddr,
                                page, seg.flag),
                        LAMBDA s2 :
                     LET extra_pages == s2.ret IN
                     IF extra_pages < 0
                     THEN Ret(pmm_free_page_address(s2, page), FALSE)
                     ELSE load_segments(
                            AddPages([s2 EXCEPT !.mem[page] = seg.data],
                                     proc, extra_pages + 1),
                            elf, proc, k + 1)))

\* elf_load_program: maps the image into proc's address space and stores
\* its entry address.
elf_load_program(s, elf, proc) ==
  IF ~elf.valid THEN Ret(s, FALSE)
  ELSE Bind(load_segments(s, elf, proc, 1), LAMBDA s1 :
         IF s1.ret THEN [s1 EXCEPT !.procs[proc].entry = elf.entry] ELSE s1)

\* --------------------------------------------------------------------- exec
\* alloc_user_stack that keeps the stack frame when its mapping fails.
alloc_user_stack_leaky(s, proc) ==
  Bind(pmm_alloc_page_address(s), LAMBDA s1 :
    LET stack == s1.ret IN
    IF stack = 0 THEN Ret(s1, FALSE)
    ELSE Bind(vmm_map(s1, s1.procs[proc].page_dir,
                      PROC_USER_STACK - PAGE_SIZE, stack,
                      VMM_WRITABLE + VMM_USER),
              LAMBDA s2 :
           LET extra_pages == s2.ret IN
           IF extra_pages < 0
           THEN Ret(s2, FALSE)
           ELSE [AddPages(s2, proc, extra_pages + 1) EXCEPT
                   !.procs[proc].kernel_stack = PROC_KERNEL_STACK,
                   !.procs[proc].user_stack = PROC_USER_STACK,
                   !.ret = TRUE]))

\* Lines 148-165 of alloc_proc_stacks: the user stack.
alloc_user_stack(s, proc) ==
  Bind(pmm_alloc_page_address(s), LAMBDA s1 :
    LET stack == s1.ret IN
    IF stack = 0 THEN Ret(s1, FALSE)
    ELSE Bind(vmm_map(s1, s1.procs[proc].page_dir,
                      PROC_USER_STACK - PAGE_SIZE, stack,
                      VMM_WRITABLE + VMM_USER),
              LAMBDA s2 :
           LET extra_pages == s2.ret IN
           IF extra_pages < 0
           THEN Ret(pmm_free_page_address(s2, stack), FALSE)
           ELSE [AddPages(s2, proc, extra_pages + 1) EXCEPT
                   !.procs[proc].kernel_stack = PROC_KERNEL_STACK,
                   !.procs[proc].user_stack = PROC_USER_STACK,
                   !.ret = TRUE]))

\* alloc_proc_stacks that counts the kernel stack's page and not the page
\* table vmm_map allocated for it.
alloc_proc_stacks_flat(s, proc) ==
  Bind(pmm_alloc_page_address(s), LAMBDA s1 :
    LET stack == s1.ret IN
    IF stack = 0 THEN Ret(s1, FALSE)
    ELSE Bind(vmm_map(s1, s1.procs[proc].page_dir,
                      PROC_KERNEL_STACK - PAGE_SIZE, stack, VMM_WRITABLE),
              LAMBDA s2 :
           LET extra_pages == s2.ret IN
           IF extra_pages < 0
           THEN Ret(pmm_free_page_address(s2, stack), FALSE)
           ELSE alloc_user_stack(AddPages(s2, proc, 1), proc)))

alloc_proc_stacks(s, proc) ==
  Bind(pmm_alloc_page_address(s), LAMBDA s1 :
    LET stack == s1.ret IN
    IF stack = 0 THEN Ret(s1, FALSE)
    ELSE Bind(vmm_map(s1, s1.procs[proc].page_dir,
                      PROC_KERNEL_STACK - PAGE_SIZE, stack, VMM_WRITABLE),
              LAMBDA s2 :
           LET extra_pages == s2.ret IN
           IF extra_pages < 0
           THEN Ret(pmm_free_page_address(s2, stack), FALSE)
           ELSE alloc_user_stack(AddPages(s2, proc, extra_pages + 1), proc)))

\* init_proc_from_elf without the increment for the directory's frame.
init_proc_from_elf_uncounted(s, proc, elf) ==
  Bind(vmm_alloc_vaddr_space(s), LAMBDA s1 :
  Bind([s1 EXCEPT !.procs[proc].page_dir = s1.ret], LAMBDA s2 :
    IF s2.procs[proc].page_dir = 0 THEN Ret(s2, FALSE)
    ELSE Bind(elf_load_program(s2, elf, proc), LAMBDA s3 :
           IF ~s3.ret THEN Ret(s3, FALSE)
           ELSE Bind(alloc_proc_stacks(s3, proc), LAMBDA s4 :
                  IF ~s4.ret THEN Ret(s4, FALSE)
                  ELSE Ret(pg_copy_kernel_space(s4, s4.procs[proc].page_dir),
                           TRUE)))))

init_proc_from_elf(s, proc, elf) ==
  Bind(vmm_alloc_vaddr_space(s), LAMBDA s1 :
  Bind([s1 EXCEPT !.procs[proc].page_dir = s1.ret], LAMBDA s2 :
    IF s2.procs[proc].page_dir = 0 THEN Ret(s2, FALSE)
    ELSE Bind(elf_load_program(AddPages(s2, proc, 1), elf, proc), LAMBDA s3 :
           IF ~s3.ret THEN Ret(s3, FALSE)
           ELSE Bind(alloc_proc_stacks(s3, proc), LAMBDA s4 :
                  IF ~s4.ret THEN Ret(s4, FALSE)
                  ELSE Ret(pg_copy_kernel_space(s4, s4.procs[proc].page_dir),
                           TRUE)))))

\* proc_exec that registers the record without marking it RUNNING.
proc_exec_unmarked(s, elf) ==
  Bind(proc_alloc(s), LAMBDA s0 :
    LET proc == s0.ret IN
    IF proc = 0 \/ s0.panic # "none" THEN Ret(s0, FALSE)
    ELSE Bind(init_proc_from_elf(s0, proc, elf), LAMBDA s1 :
           IF ~s1.ret THEN Ret(proc_free(s1, proc), FALSE)
           ELSE Ret(sched_add(s1, proc), TRUE)))

\* proc_exec that marks the record RUNNING before it is built.
proc_exec_eager(s, elf) ==
  Bind(proc_alloc(s), LAMBDA s0 :
    LET proc == s0.ret IN
    IF proc = 0 \/ s0.panic # "none" THEN Ret(s0, FALSE)
    ELSE Bind(init_proc_from_elf(
                [s0 EXCEPT !.procs[proc].state = PROC_STATE_RUNNING],
                proc, elf),
              LAMBDA s1 :
           IF ~s1.ret THEN Ret(proc_free(s1, proc), FALSE)
           ELSE Ret(sched_add(s1, proc), TRUE)))

proc_exec(s, elf) ==
  Bind(proc_alloc(s), LAMBDA s0 :
    LET proc == s0.ret IN
    IF proc = 0 \/ s0.panic # "none" THEN Ret(s0, FALSE)
    ELSE Bind(init_proc_from_elf(s0, proc, elf), LAMBDA s1 :
           IF ~s1.ret THEN Ret(proc_free(s1, proc), FALSE)
           ELSE Ret(sched_add(
                         [s1 EXCEPT !.procs[proc].state = PROC_STATE_RUNNING],
                         proc),
                       TRUE)))


\* -------------------------------------------------------------------- clone
\* copy_page without the memcpy: the clone's page keeps what its frame held.
copy_page_uncopied(s, clone, clone_tab, pte, page, page_flag) ==
  Bind(pmm_alloc_page_address(s), LAMBDA s1 :
     LET clone_page == s1.ret IN
     IF clone_page = 0 THEN Ret(s1, FALSE)
     ELSE Ret(AddPages(
                vmm_map_page_index(s1, clone_tab, pte, clone_page, page_flag),
                clone, 1),
              TRUE))

\* copy_page mapping the source's frame instead of the copy.
copy_page_shared(s, clone, clone_tab, pte, page, page_flag) ==
  Bind(pmm_alloc_page_address(s), LAMBDA s1 :
     LET clone_page == s1.ret IN
     IF clone_page = 0 THEN Ret(s1, FALSE)
     ELSE Ret(AddPages(
                vmm_map_page_index(
                  [s1 EXCEPT !.mem[clone_page] = s1.mem[page]],
                  clone_tab, pte, page, page_flag),
                clone, 1),
              TRUE))

\* Lines 250-259: copy one mapped page of the source into the clone.
copy_page(s, clone, clone_tab, pte, page, page_flag) ==
  Bind(pmm_alloc_page_address(s), LAMBDA s1 :
     LET clone_page == s1.ret IN
     IF clone_page = 0 THEN Ret(s1, FALSE)
     ELSE Ret(AddPages(
                vmm_map_page_index(
                  [s1 EXCEPT !.mem[clone_page] = s1.mem[page]],
                  clone_tab, pte, clone_page, page_flag),
                clone, 1),
              TRUE))

\* The inner loop of init_proc_from_proc over the slots pte.. of page_tab.
RECURSIVE copy_pages(_, _, _, _, _)
copy_pages(s, clone, page_tab, clone_tab, pte) ==
  LET rest == {i \in DOMAIN s.pt[page_tab] : i >= pte /\ i < NUM_PTE} IN
  IF rest = {} THEN Ret(s, TRUE)
  ELSE LET i == MinOf(rest)
           e == vmm_get_page_index(s, page_tab, i)
       IN IF e[1] = 0 THEN copy_pages(s, clone, page_tab, clone_tab, i + 1)
          ELSE Bind(copy_page(s, clone, clone_tab, i, e[1], e[2]),
                    LAMBDA s1 :
                 IF ~s1.ret THEN s1
                 ELSE copy_pages(s1, clone, page_tab, clone_tab, i + 1))

\* copy_table without the increment for the table's frame.
copy_table_uncounted(s, clone, pde, tab_flag) ==
  Bind(vmm_alloc_page_table(s), LAMBDA s1 :
     LET clone_tab == s1.ret IN
     IF clone_tab = 0 THEN s1
     ELSE Ret(vmm_map_page_table_index(s1, s1.procs[clone].page_dir, pde,
                                       clone_tab, tab_flag),
              clone_tab))

\* Lines 231-240: a page table for the clone at slot pde, mapped with the
\* source's table flags.
copy_table(s, clone, pde, tab_flag) ==
  Bind(vmm_alloc_page_table(s), LAMBDA s1 :
     LET clone_tab == s1.ret IN
     IF clone_tab = 0 THEN s1
     ELSE Ret(AddPages(
                vmm_map_page_table_index(s1, s1.procs[clone].page_dir, pde,
                                         clone_tab, tab_flag),
                clone, 1),
              clone_tab))

\* The outer loop of init_proc_from_proc over the directory slots pde..
RECURSIVE copy_tables(_, _, _, _)
copy_tables(s, clone, proc, pde) ==
  IF pde >= KERNEL_BASE \div (NUM_PTE * PAGE_SIZE) THEN Ret(s, TRUE)
  ELSE LET e == vmm_get_page_table_index(s, s.procs[proc].page_dir, pde) IN
       IF e[1] = 0 THEN copy_tables(s, clone, proc, pde + 1)
       ELSE Bind(copy_table(s, clone, pde, e[2]), LAMBDA s1 :
              IF s1.ret = 0 THEN Ret(s1, FALSE)
              ELSE Bind(copy_pages(s1, clone, e[1], s1.ret, 0), LAMBDA s2 :
                     IF ~s2.ret THEN s2
                     ELSE copy_tables(s2, clone, proc, pde + 1)))

init_proc_from_proc(s, clone, proc) ==
  Bind(vmm_alloc_vaddr_space(s), LAMBDA s1 :
  Bind([s1 EXCEPT !.procs[clone].page_dir = s1.ret], LAMBDA s2 :
    IF s2.procs[clone].page_dir = 0 THEN Ret(s2, FALSE)
    ELSE Bind(copy_tables(AddPages(s2, clone, 1), clone, proc, 0),
              LAMBDA s3 :
           IF ~s3.ret THEN s3
           ELSE Ret(pg_copy_kernel_space(s3, s3.procs[clone].page_dir),
                    TRUE))))

\* Lines 287-292: the clone takes over the source's fields.
inherit(s, clone, proc) ==
  [s EXCEPT !.procs[clone].state = PROC_STATE_RUNNING,
            !.procs[clone].context = s.procs[proc].context,
            !.procs[clone].entry = s.procs[proc].entry,
            !.procs[clone].kernel_stack = s.procs[proc].kernel_stack,
            !.procs[clone].user_stack = s.procs[proc].user_stack,
            !.procs[clone].parent = proc]

\* proc_clone that registers the clone before it marks and fills it.
proc_clone_early(s, proc) ==
  Bind(proc_alloc(s), LAMBDA s0 :
    LET clone == s0.ret IN
    IF clone = 0 \/ s0.panic # "none" THEN Ret(s0, 0)
    ELSE Bind(init_proc_from_proc(s0, clone, proc), LAMBDA s1 :
           IF ~s1.ret THEN Ret(proc_free(s1, clone), 0)
           ELSE Bind([s1 EXCEPT !.cmp = <<s1.procs[clone].mem_pages,
                                          s1.procs[proc].mem_pages>>],
                     LAMBDA s2 :
                  IF s2.procs[clone].mem_pages # s2.procs[proc].mem_pages
                  THEN [s2 EXCEPT !.panic = "clone", !.ret = 0]
                  ELSE Ret(inherit(sched_add(s2, clone), clone, proc),
                           clone))))

proc_clone(s, proc) ==
  Bind(proc_alloc(s), LAMBDA s0 :
    LET clone == s0.ret IN
    IF clone = 0 \/ s0.panic # "none" THEN Ret(s0, 0)
    ELSE Bind(init_proc_from_proc(s0, clone, proc), LAMBDA s1 :
           IF ~s1.ret THEN Ret(proc_free(s1, clone), 0)
           ELSE Bind([s1 EXCEPT !.cmp = <<s1.procs[clone].mem_pages,
                                          s1.procs[proc].mem_pages>>],
                     LAMBDA s2 :
                  IF s2.procs[clone].mem_pages # s2.procs[proc].mem_pages
                  THEN [s2 EXCEPT !.panic = "clone", !.ret = 0]
                  ELSE Ret(sched_add(inherit(s2, clone, proc), clone),
                           clone))))

\* --------------------------------------------------------------------- exit
\* proc_exit that yields to the scheduler before it marks the record.
proc_exit_late(s, proc, status) ==
  [sched(s) EXCEPT !.procs[proc].status = status,
                   !.procs[proc].state = PROC_STATE_DEAD]

proc_exit(s, proc, status) ==
  sched([s EXCEPT !.procs[proc].status = status,
                  !.procs[proc].state = PROC_STATE_DEAD])

\* ------------------------------------------------------------ specification
NoEvent ==
  [op |-> "boot", proc |-> 0, elf |-> 0, ret |-> 0, slabfail |-> FALSE,
   pmmfail |-> FALSE, nalloc |-> 0, nfree |-> 0, refree |-> FALSE,
   victim |-> 0, owned |-> -1, reclaimed |-> 0,
   leak |-> -1, cmp |-> <<>>, fresh |-> <<>>, added |-> <<>>,
   freed |-> <<>>, vstate |-> -1, vframes |-> {}, vmapped |-> -1,
   arg |-> -1, probes |-> 0, retired |-> {}]

\* The CPUs that call the PID allocator without a lock, and a CPU that is
\* not inside the allocator, has made no call and holds no PID.
Cpus == {1, 2}

\* The two ways a compiler lays out the accesses of the loop of alloc_pid
\* (lines 35-46), which has no volatile, atomic or barrier in it.  "each":
\* as written, pid_gen is read and written in every iteration and the byte
\* is read again by line 43 (gcc -O0).  "sunk": pid_gen is read once before
\* the loop and kept in a register, written once when the loop is left, and
\* line 43 writes the byte line 41 read (gcc -O1, -O2, -Os).  A build that
\* merges two reads into one (gcc -Og, -O3) behaves as one of these with no
\* other CPU running between the two reads.
Builds == {"each", "sunk"}

IdleCpu ==
  [pc |-> "idle", i |-> 0, pid |-> 0, gen |-> 0, byte |-> [k \in 0 .. 7 |-> 0],
   ret |-> -1, held |-> {}, calls |-> 0]

\* Physical memory at boot: the allocator's frames hold nothing, the
\* kernel's page table maps the kernel's page.
BootPd == [f \in Frames \cup KernelFrames |-> EmptyMap]

BootPt ==
  [f \in Frames \cup KernelFrames |->
     IF f = KernelTable
     THEN MapSet(EmptyMap, 0, [page |-> KernelPage, flag |-> VMM_WRITABLE])
     ELSE EmptyMap]

BootMem == [f \in Frames \cup KernelFrames |-> IF f = KernelPage THEN 1 ELSE 0]

\* The kernel as loaded: the statics are zero, proc_initialize has not run.
Init ==
  /\ pid_map = [p \in PidBits |-> 0]
  /\ pid_gen = 0
  /\ proc_cache = 0
  /\ procs = [q \in Slots |-> StaleProc]
  /\ slab = {}
  /\ orphans = {}
  /\ free = Frames
  /\ pd = BootPd
  /\ pt = BootPt
  /\ mem = BootMem
  /\ runq = {}
  /\ panic = "none"
  /\ ev = NoEvent
  /\ cpu = [c \in Cpus |-> IdleCpu]
  /\ overlap = FALSE
  /\ build \in Builds

\* The faults a call can be made to meet: none, the n-th frame allocation
\* failing, or the record cache being exhausted.
Faults ==
  {[failn |-> n, slabfail |-> FALSE] : n \in 0 .. MaxFailPoint}
    \cup {[failn |-> 0, slabfail |-> TRUE]}

\* No fault but the resources really running out.
NoFaults == {[failn |-> 0, slabfail |-> FALSE]}

\* The state after a call that ended in machine state s.
Commit(s, op, proc, elf) ==
  /\ pid_map' = s.pid_map
  /\ pid_gen' = s.pid_gen
  /\ proc_cache' = s.proc_cache
  /\ procs' = s.procs
  /\ slab' = s.slab
  /\ orphans' = s.orphans
  /\ free' = s.free
  /\ pd' = s.pd
  /\ pt' = s.pt
  /\ mem' = s.mem
  /\ runq' = s.runq
  /\ panic' = s.panic
  /\ UNCHANGED <<cpu, overlap, build>>
  /\ ev' = [op |-> op, proc |-> proc, elf |-> elf, ret |-> s.ret,
            slabfail |-> s.slabfail, pmmfail |-> s.pmmfail,
            nalloc |-> s.nalloc, nfree |-> s.nfree, refree |-> s.refree,
            victim |-> s.victim, owned |-> s.owned,
            reclaimed |-> s.reclaimed, leak |-> s.leak,
            cmp |-> s.cmp, fresh |-> s.fresh, added |-> s.added,
            freed |-> s.freed, vstate |-> s.vstate, vframes |-> s.vframes,
            vmapped |-> s.vmapped, arg |-> s.arg,
            probes |-> IF op = "alloc_pid" THEN s.probes ELSE 0,
            retired |-> s.retired]

\* The kernel's start-up code, or any later caller, sets the process
\* manager up.
ProcInitialize ==
  /\ panic = "none"
  /\ proc_cache < MaxCaches
  /\ Commit(proc_initialize(Machine(0, FALSE)), "proc_initialize", 0, 0)

\* The records acquired and not released.
Live == slab \cup orphans

\* A kernel subsystem acquires a record.
ProcAlloc ==
  /\ panic = "none"
  /\ \E slabfail \in BOOLEAN :
       Commit(proc_alloc(Machine(0, slabfail)), "proc_alloc", 0, 0)

\* A record the scheduler no longer holds (never registered, or retired)
\* is destroyed.
ProcFree ==
  /\ panic = "none"
  /\ \E proc \in Live \ runq :
       Commit(proc_free(Machine(0, FALSE), proc), "proc_free", proc, 0)

\* The scheduler's reaper destroys a record that exited.
ProcReap ==
  /\ panic = "none"
  /\ \E proc \in Live \ runq :
       /\ procs[proc].state = PROC_STATE_DEAD
       /\ Commit(proc_free(Machine(0, FALSE), proc), "proc_free", proc, 0)

\* The kernel starts a process from an image.
ProcExec(F) ==
  /\ panic = "none"
  /\ \E elf \in Elfs, f \in F :
       Commit(proc_exec(Machine(f.failn, f.slabfail), elf), "proc_exec", 0,
              elf.id)

\* A running process forks.
ProcClone(F) ==
  /\ panic = "none"
  /\ \E proc \in runq, f \in F :
       Commit(proc_clone(Machine(f.failn, f.slabfail), proc), "proc_clone",
              proc, 0)

\* A running process exits.
ProcExit ==
  /\ panic = "none"
  /\ \E proc \in runq, status \in Statuses :
       Commit(proc_exit([Machine(0, FALSE) EXCEPT !.arg = status], proc,
                        status),
              "proc_exit", proc, 0)

\* The context switch saves the registers of a running process.
SaveContext ==
  /\ panic = "none"
  /\ \E proc \in runq, c \in Contexts :
       /\ procs[proc].context # c
       /\ Commit([Machine(0, FALSE) EXCEPT !.procs[proc].context = c],
                 "switch", proc, 0)

\* Fewer than MaxIssued PIDs have been handed out since boot.
Early == pid_gen < MaxIssued

\* proc_initialize has not run.
Loaded == proc_cache = 0

\* The calls into this file, under every fault, until MaxIssued PIDs have
\* been handed out.
Next ==
  \/ ProcInitialize
  \/ Early /\ ProcAlloc
  \/ ProcFree
  \/ Early /\ ProcExec(Faults)
  \/ Early /\ ProcClone(Faults)
  \/ ProcExit

Spec == Init /\ [][Next]_vars

\* The calls into this file after the one proc_initialize of the kernel's
\* start, interleaved with context switches, with no fault but the
\* resources really running out.
NextSwitch ==
  \/ Loaded /\ ProcInitialize
  \/ Early /\ ProcAlloc
  \/ ProcFree
  \/ Early /\ ProcExec(NoFaults)
  \/ Early /\ ProcClone(NoFaults)
  \/ ProcExit
  \/ SaveContext

SpecSwitch == Init /\ [][NextSwitch]_vars

\* All but two of the PIDs are out.
Crowded == Cardinality(Live) >= PROC_MAX_NUM - 2

\* The kernel filling up: records are acquired and kept; once all but two
\* of the PIDs are out, processes come and go beside them, until PIDs or
\* records run out and after.
NextFull ==
  \/ Loaded /\ ProcInitialize
  \/ ProcAlloc
  \/ ProcReap
  \/ Crowded /\ ProcExec(NoFaults)
  \/ Crowded /\ ProcClone(NoFaults)
  \/ ProcExit

SpecFull == Init /\ [][NextFull]_vars

\* The kernel filling up, under every fault: as NextFull, with proc_exec
\* and proc_clone also made to meet a failing frame allocation or a failing
\* record cache, so that a call fails for an injected fault, for a rejected
\* image, or for the PIDs having run out.
NextScarce ==
  \/ Loaded /\ ProcInitialize
  \/ ProcAlloc
  \/ ProcReap
  \/ Crowded /\ ProcExec(Faults)
  \/ Crowded /\ ProcClone(Faults)
  \/ ProcExit

SpecScarce == Init /\ [][NextScarce]_vars


\* The PID allocator on its own: any sequence of alloc_pid and of free_pid
\* of an assigned PID.
AllocPid ==
  Commit(alloc_pid(Machine(0, FALSE)), "alloc_pid", 0, 0)

FreePid ==
  \E pid \in DOMAIN pid_map :
    /\ pid_map[pid] = 1
    /\ Commit(free_pid([Machine(0, FALSE) EXCEPT !.arg = pid], pid),
              "free_pid", 0, 0)

NextPid ==
  \/ AllocPid
  \/ FreePid

SpecPid == Init /\ [][NextPid]_vars

\* ------------------------------------------------- the allocator, no lock
\* alloc_pid and free_pid called from several CPUs with nothing to exclude
\* one another.  A step is one access to the shared pid_gen or pid_map: the
\* statements of lines 38, 43 and 53 read the shared value, compute, and
\* write it back, and another CPU can run in between.  The local variables
\* of a call (i, pid, the value read) are the CPU's own.  The accesses of
\* alloc_pid race, so their number and order are the build's: the steps
\* named _kept and _sunk are those of the build that keeps the cursor in a
\* register, the others of alloc_pid those of the build that does not.
NotAllocator ==
  <<proc_cache, procs, slab, orphans, free, pd, pt, mem, runq, panic, ev,
    build>>

\* The byte b of the bitmap, and the bitmap with byte b replaced by v.
ByteOf(map, b) == [k \in 0 .. 7 |-> map[8 * b + k]]

StoreByte(map, b, v) ==
  [p \in DOMAIN map |-> IF p \div 8 = b THEN v[p % 8] ELSE map[p]]

\* Whether a call of another CPU is in progress when CPU c starts one.
Overlaps(c) == \E b \in Cpus \ {c} : cpu[b].pc \notin {"idle", "done"}

\* Line 33: CPU c enters alloc_pid.
alloc_pid_enter(c) ==
  /\ cpu[c].pc = "idle"
  /\ cpu[c].calls < MaxCalls
  /\ cpu' = [cpu EXCEPT ![c].pc = IF build = "each" THEN "for" ELSE "gen_kept",
                        ![c].i = 0, ![c].calls = @ + 1]
  /\ overlap' = (overlap \/ Overlaps(c))
  /\ UNCHANGED <<pid_map, pid_gen, NotAllocator>>

\* Lines 35 and 48: the loop test, and the return of -1 after the loop.
alloc_pid_for(c) ==
  /\ cpu[c].pc = "for"
  /\ cpu' = IF cpu[c].i < PROC_MAX_NUM
            THEN [cpu EXCEPT ![c].pc = "read"]
            ELSE [cpu EXCEPT ![c].pc = "done", ![c].ret = -1]
  /\ UNCHANGED <<pid_map, pid_gen, overlap, NotAllocator>>

\* Lines 37-38, cursor in a register: the one read of pid_gen of the call.
alloc_pid_gen_kept(c) ==
  /\ cpu[c].pc = "gen_kept"
  /\ cpu' = [cpu EXCEPT ![c].gen = pid_gen, ![c].pc = "test_kept"]
  /\ UNCHANGED <<pid_map, pid_gen, overlap, NotAllocator>>

\* Lines 37-41 and 35, cursor in a register: pid is the cursor, the cursor
\* advances, the byte is read and the bit tested; ++i when it is set, and
\* the loop is left when the bit is clear or i reaches PROC_MAX_NUM.
alloc_pid_test_kept(c) ==
  /\ cpu[c].pc = "test_kept"
  /\ cpu' = LET pid == cpu[c].gen
                byte == ByteOf(pid_map, pid \div 8)
                gen == (pid + 1) % PROC_MAX_NUM
            IN  IF byte[pid % 8] = 0
                THEN [cpu EXCEPT ![c].pid = pid, ![c].gen = gen,
                                 ![c].byte = byte, ![c].pc = "gen_sunk"]
                ELSE [cpu EXCEPT ![c].pid = pid, ![c].gen = gen,
                                 ![c].i = @ + 1,
                                 ![c].pc = IF cpu[c].i + 1 < PROC_MAX_NUM
                                           THEN "test_kept" ELSE "gen_sunk"]
  /\ UNCHANGED <<pid_map, pid_gen, overlap, NotAllocator>>

\* Line 38, cursor in a register: the one write of pid_gen of the call,
\* made where the loop is left; line 48: the return of -1 after the loop.
alloc_pid_gen_sunk(c) ==
  /\ cpu[c].pc = "gen_sunk"
  /\ pid_gen' = cpu[c].gen
  /\ cpu' = IF cpu[c].i < PROC_MAX_NUM
            THEN [cpu EXCEPT ![c].gen = 0, ![c].pc = "set_kept"]
            ELSE [cpu EXCEPT ![c].gen = 0, ![c].pc = "done", ![c].ret = -1]
  /\ UNCHANGED <<pid_map, overlap, NotAllocator>>

\* Lines 43-44, byte in a register: the byte line 41 read is written with
\* the bit set, and the PID is returned.
alloc_pid_set_kept(c) ==
  /\ cpu[c].pc = "set_kept"
  /\ pid_map' = StoreByte(pid_map, cpu[c].pid \div 8,
                          [cpu[c].byte EXCEPT ![cpu[c].pid % 8] = 1])
  /\ cpu' = [cpu EXCEPT ![c].pc = "done", ![c].ret = cpu[c].pid,
                        ![c].byte = IdleCpu.byte]
  /\ UNCHANGED <<pid_gen, overlap, NotAllocator>>

\* Line 37: pid = pid_gen.
alloc_pid_read(c) ==
  /\ cpu[c].pc = "read"
  /\ cpu' = [cpu EXCEPT ![c].pid = pid_gen, ![c].pc = "gen_load"]
  /\ UNCHANGED <<pid_map, pid_gen, overlap, NotAllocator>>

\* Line 38, the read of pid_gen.
alloc_pid_gen_load(c) ==
  /\ cpu[c].pc = "gen_load"
  /\ cpu' = [cpu EXCEPT ![c].gen = pid_gen, ![c].pc = "gen_store"]
  /\ UNCHANGED <<pid_map, pid_gen, overlap, NotAllocator>>

\* Line 38, the write of pid_gen: the value read, plus 1, % PROC_MAX_NUM.
alloc_pid_gen_store(c) ==
  /\ cpu[c].pc = "gen_store"
  /\ pid_gen' = (cpu[c].gen + 1) % PROC_MAX_NUM
  /\ cpu' = [cpu EXCEPT ![c].gen = 0, ![c].pc = "test"]
  /\ UNCHANGED <<pid_map, overlap, NotAllocator>>

\* Line 41: the test of the bit; line 35: ++i when it is set.
alloc_pid_test(c) ==
  /\ cpu[c].pc = "test"
  /\ cpu' = IF ByteOf(pid_map, cpu[c].pid \div 8)[cpu[c].pid % 8] = 0
            THEN [cpu EXCEPT ![c].pc = "set_load"]
            ELSE [cpu EXCEPT ![c].pc = "for", ![c].i = @ + 1]
  /\ UNCHANGED <<pid_map, pid_gen, overlap, NotAllocator>>

\* Line 43, the read of the byte that holds the bit.
alloc_pid_set_load(c) ==
  /\ cpu[c].pc = "set_load"
  /\ cpu' = [cpu EXCEPT ![c].byte = ByteOf(pid_map, cpu[c].pid \div 8),
                        ![c].pc = "set_store"]
  /\ UNCHANGED <<pid_map, pid_gen, overlap, NotAllocator>>

\* alloc_pid returning the PID without writing the byte back.
alloc_pid_set_store_skipped(c) ==
  /\ cpu[c].pc = "set_store"
  /\ cpu' = [cpu EXCEPT ![c].pc = "done", ![c].ret = cpu[c].pid,
                        ![c].byte = IdleCpu.byte]
  /\ UNCHANGED <<pid_map, pid_gen, overlap, NotAllocator>>

\* Line 43, the write of the byte: the value read with the bit set; line
\* 44: the PID is returned.
alloc_pid_set_store(c) ==
  /\ cpu[c].pc = "set_store"
  /\ pid_map' = StoreByte(pid_map, cpu[c].pid \div 8,
                          [cpu[c].byte EXCEPT ![cpu[c].pid % 8] = 1])
  /\ cpu' = [cpu EXCEPT ![c].pc = "done", ![c].ret = cpu[c].pid,
                        ![c].byte = IdleCpu.byte]
  /\ UNCHANGED <<pid_gen, overlap, NotAllocator>>

\* Line 73: the caller takes the result, a PID it now holds, or -1.
alloc_pid_leave(c) ==
  /\ cpu[c].pc = "done"
  /\ cpu' = [cpu EXCEPT
               ![c] = [IdleCpu EXCEPT
                         !.calls = cpu[c].calls,
                         !.held = IF cpu[c].ret = -1 THEN cpu[c].held
                                  ELSE cpu[c].held \cup {cpu[c].ret}]]
  /\ UNCHANGED <<pid_map, pid_gen, overlap, NotAllocator>>

\* Line 51: CPU c enters free_pid with a PID it holds.
free_pid_enter(c) ==
  /\ cpu[c].pc = "idle"
  /\ cpu[c].calls < MaxCalls
  /\ \E pid \in cpu[c].held :
       cpu' = [cpu EXCEPT ![c].pc = "free_load", ![c].pid = pid,
                          ![c].held = @ \ {pid}, ![c].calls = @ + 1]
  /\ overlap' = (overlap \/ Overlaps(c))
  /\ UNCHANGED <<pid_map, pid_gen, NotAllocator>>

\* Line 53, the read of the byte that holds the bit.
free_pid_load(c) ==
  /\ cpu[c].pc = "free_load"
  /\ cpu' = [cpu EXCEPT ![c].byte = ByteOf(pid_map, cpu[c].pid \div 8),
                        ![c].pc = "free_store"]
  /\ UNCHANGED <<pid_map, pid_gen, overlap, NotAllocator>>

\* Line 53, the write of the byte: the value read with the bit cleared.
free_pid_store(c) ==
  /\ cpu[c].pc = "free_store"
  /\ pid_map' = StoreByte(pid_map, cpu[c].pid \div 8,
                          [cpu[c].byte EXCEPT ![cpu[c].pid % 8] = 0])
  /\ cpu' = [cpu EXCEPT
               ![c] = [IdleCpu EXCEPT !.calls = cpu[c].calls,
                                      !.held = cpu[c].held]]
  /\ UNCHANGED <<pid_gen, overlap, NotAllocator>>

NextRace ==
  \E c \in Cpus :
    \/ alloc_pid_enter(c)
    \/ alloc_pid_for(c)
    \/ alloc_pid_gen_kept(c)
    \/ alloc_pid_test_kept(c)
    \/ alloc_pid_gen_sunk(c)
    \/ alloc_pid_set_kept(c)
    \/ alloc_pid_read(c)
    \/ alloc_pid_gen_load(c)
    \/ alloc_pid_gen_store(c)
    \/ alloc_pid_test(c)
    \/ alloc_pid_set_load(c)
    \/ alloc_pid_set_store(c)
    \/ alloc_pid_leave(c)
    \/ free_pid_enter(c)
    \/ free_pid_load(c)
    \/ free_pid_store(c)

SpecRace == Init /\ [][NextRace]_vars

\* ------------------------------------------------------------------- views
ElfOf(id) == CHOOSE e \in Elfs : e.id = id

\* ------------------------------------------------------------------ claims

\* C1: PID uniqueness.  After any sequence of proc_alloc and proc_free
\* calls, no two simultaneously live records hold the same PID.
C1_PidUnique ==
  \A a \in Live, b \in Live : a # b => procs[a].pid # procs[b].pid

\* C1 witness: PROC_MAX_NUM records are live, the last one acquired
\* holding a PID that was released and issued again after the cursor
\* wrapped round (PID 6, first issued to the record in slot 7, now in
\* slot 8).
C1_Witness ==
  /\ Cardinality(Live) = PROC_MAX_NUM
  /\ ev.op = "proc_alloc" /\ ev.ret = 8
  /\ procs[8].pid = 6 /\ procs[7].pid = 7
  /\ pid_gen = 7

\* C2: frame conservation on destroy.  Whenever proc_free ran (on a fully
\* or partially built record), the frames it gave back are as many as the
\* record's mem_pages said it owned, mem_pages is 0 at the leak check, no
\* frame is given back twice and the record is back in the pool.
C2_FrameConservation ==
  ev.owned # -1 =>
    /\ ev.leak = 0
    /\ ev.reclaimed = ev.owned
    /\ ~ev.refree
    /\ panic = "none"
    /\ ev.victim \notin Live

\* C2 witness: a process built whole by exec or clone was destroyed.
C2_Witness ==
  /\ ev.op = "proc_free"
  /\ ev.owned >= 6
  /\ ev.reclaimed = ev.owned

\* C3: clone frame-count equality.  When proc_clone reaches its self-check
\* the clone's mem_pages equals the source's, the mismatch fault is not
\* raised, and the returned clone owns as many frames as the source.
C3_CloneCount ==
  (ev.op = "proc_clone" /\ ev.cmp # <<>>) =>
    /\ ev.cmp[1] = ev.cmp[2]
    /\ panic = "none"
    /\ ev.ret # 0
    /\ procs[ev.ret].mem_pages = procs[ev.proc].mem_pages
    /\ procs[ev.proc].mem_pages = ev.cmp[2]
    /\ procs[ev.ret].mem_pages =
         MappingsOf(pd, pt, procs[ev.proc].page_dir)

\* C3 witness: a process that is itself a clone was cloned with success.
C3_Witness ==
  /\ ev.op = "proc_clone" /\ ev.ret # 0
  /\ procs[ev.proc].parent # 0
  /\ ev.cmp[2] >= 6


\* C4: clone fidelity.  After a successful proc_clone(P) returning C, C maps
\* exactly the user-space slots P maps, with the same table and page flags
\* and the same page contents, every mapping of C on a frame of its own
\* (none shared with P, with another record, with the free list, or used
\* twice), and C has P as parent and P's context, entry and stack addresses.
C4_CloneFidelity ==
  (ev.op = "proc_clone" /\ ev.ret # 0) =>
    LET C == procs[ev.ret]
        P == procs[ev.proc]
        others == UNION {FramesOf(pd, pt, procs[q].page_dir) :
                           q \in Live \ {ev.ret}}
    IN /\ C.page_dir # 0
       /\ UserSpace(pd, pt, mem, C.page_dir)
            = UserSpace(pd, pt, mem, P.page_dir)
       /\ FramesOf(pd, pt, C.page_dir) \cap others = {}
       /\ FramesOf(pd, pt, C.page_dir) \cap free = {}
       /\ Cardinality(FramesOf(pd, pt, C.page_dir))
            = MappingsOf(pd, pt, C.page_dir)
       /\ C.parent = ev.proc
       /\ C.context = P.context
       /\ C.entry = P.entry
       /\ C.kernel_stack = P.kernel_stack
       /\ C.user_stack = P.user_stack

\* C4 witness: a process with a saved context and an image page in a
\* directory slot of its own was cloned.
C4_Witness ==
  /\ ev.op = "proc_clone" /\ ev.ret # 0
  /\ procs[ev.proc].context = 1
  /\ procs[ev.proc].entry = PAGE_SIZE
  /\ procs[ev.ret].mem_pages = 7

\* C5: clone fails cleanly.  A proc_clone(P) that returns no record leaves
\* P's record, mappings and page contents as they were, the free frames as
\* they were, and the PID bitmap and the pool as they were.
C5_CloneFailsCleanly ==
  [][(ev'.op = "proc_clone" /\ ev'.ret = 0) =>
       /\ panic' = "none"
       /\ procs'[ev'.proc] = procs[ev'.proc]
       /\ UserSpace(pd', pt', mem', procs'[ev'.proc].page_dir)
            = UserSpace(pd, pt, mem, procs[ev'.proc].page_dir)
       /\ UserFrames(pd', pt', procs'[ev'.proc].page_dir)
            = UserFrames(pd, pt, procs[ev'.proc].page_dir)
       /\ free' = free
       /\ pid_map' = pid_map
       /\ Live' = Live
       /\ runq' = runq]_vars

\* C5 witness: a clone failed on a data frame in the middle of the walk,
\* after a directory, a table and a page had been allocated for it.
C5_Witness ==
  /\ ev.op = "proc_clone" /\ ev.ret = 0
  /\ ev.pmmfail /\ ev.nalloc >= 4
  /\ ev.reclaimed = ev.nalloc

\* C6: partial-build safety.  A proc_exec of the initialised kernel that
\* fails, at whatever step, leaves the set of free frames as it was before
\* the call.
C6_PartialBuild ==
  [][(ev'.op = "proc_exec" /\ ev'.ret = FALSE /\ proc_cache # 0) =>
       /\ panic' = "none"
       /\ free' = free
       /\ ev'.nfree = ev'.nalloc]_vars

\* C6 witness: exec failed at the last step, mapping the user stack, with
\* the directory, the image and the kernel stack in place.
C6_Witness ==
  /\ ev.op = "proc_exec" /\ ev.ret = FALSE
  /\ ev.elf = 1 /\ ev.pmmfail /\ ev.nalloc = 6

\* C7: exhausted PIDs.  With PROC_MAX_NUM records live, proc_exec and
\* proc_clone fail and leave the live records, the pool, the free frames,
\* the PID bitmap and the cursor as they were.
C7_ExhaustedPids ==
  [][(ev'.op \in {"proc_exec", "proc_clone"}
        /\ Cardinality(Live) = PROC_MAX_NUM) =>
       /\ ev'.ret = (IF ev'.op = "proc_exec" THEN FALSE ELSE 0)
       /\ Live' = Live
       /\ \A q \in Live : procs'[q] = procs[q]
       /\ free' = free
       /\ pid_map' = pid_map
       /\ pid_gen' = pid_gen
       /\ runq' = runq
       /\ panic' = "none"]_vars

\* C7 witness: an exec found the pool able to give a record and no PID
\* free, with PROC_MAX_NUM records live.
C7_Witness ==
  /\ ev.op = "proc_exec" /\ ev.ret = FALSE
  /\ ~ev.slabfail /\ ~ev.pmmfail /\ ev.nalloc = 0 /\ ev.owned = 0
  /\ Cardinality(Live) = PROC_MAX_NUM
  /\ \A p \in Pids : pid_map[p] = 1

\* C8: successful exec.  When proc_initialize has run, the pool gives a
\* record, a PID is free, the
\* loader accepts the image and no frame allocation fails, proc_exec
\* returns success and exactly one record is new: RUNNING, with the image's
\* entry address, a nonzero mem_pages, both stack addresses, and in the
\* runnable set.
C8_ExecSucceeds ==
  [][(/\ ev'.op = "proc_exec"
      /\ proc_cache # 0
      /\ ~ev'.slabfail /\ Live # Slots
      /\ \E p \in Pids : pid_map[p] = 0
      /\ ElfOf(ev'.elf).valid
      /\ \A k \in 1 .. Len(ElfOf(ev'.elf).segs) : ElfOf(ev'.elf).segs[k].ok
      /\ ~ev'.pmmfail) =>
       /\ ev'.ret = TRUE
       /\ \E q \in Slots \ Live :
            /\ Live' = Live \cup {q}
            /\ procs'[q].state = PROC_STATE_RUNNING
            /\ procs'[q].entry = ElfOf(ev'.elf).entry
            /\ procs'[q].mem_pages > 0
            /\ procs'[q].kernel_stack = PROC_KERNEL_STACK
            /\ procs'[q].user_stack = PROC_USER_STACK
            /\ q \in runq'
            /\ runq' = runq \cup {q}
       /\ \A q \in Live : procs'[q] = procs[q]]_vars

\* C8 witness: an exec succeeded.
C8_Witness ==
  /\ ev.op = "proc_exec" /\ ev.ret = TRUE
  /\ ev.elf = 1
  /\ \E q \in runq : procs[q].entry = PAGE_SIZE /\ procs[q].mem_pages = 7

\* C9: fork, then exit the parent.  The exit of P and the destruction of P
\* leave every clone C of P as it was: its record (mem_pages and context
\* among it), its mappings with their frames and contents; and no frame of
\* C is free after P was destroyed.
C9_ParentExit ==
  [][(ev'.op \in {"proc_exit", "proc_free"}) =>
       \A c \in Live \ {ev'.proc} :
         procs[c].parent = ev'.proc =>
           /\ c \in Live'
           /\ procs'[c] = procs[c]
           /\ UserSpace(pd', pt', mem', procs'[c].page_dir)
                = UserSpace(pd, pt, mem, procs[c].page_dir)
           /\ UserFrames(pd', pt', procs'[c].page_dir)
                = UserFrames(pd, pt, procs[c].page_dir)
           /\ FramesOf(pd', pt', procs'[c].page_dir) \cap free' = {}]_vars

\* C9 witness: a parent that owned a whole address space was destroyed
\* while its clone is running.
C9_Witness ==
  /\ ev.op = "proc_free" /\ ev.owned >= 6
  /\ \E c \in runq :
       /\ procs[c].parent = ev.proc
       /\ procs[c].state = PROC_STATE_RUNNING
       /\ procs[c].mem_pages = ev.owned

\* C10: proc_alloc either returns a record the pool did not have out, all
\* zero but for a valid PID whose bit was clear and is now set, or returns
\* nothing and leaves pool and bitmap as they were; the same holds of the
\* record proc_exec and proc_clone acquire, and no live or runnable record
\* holds the PID -1.
C10_Acquire ==
  [][/\ (ev'.op = "proc_alloc") =>
          IF ev'.ret # 0
          THEN /\ ev'.ret \notin Live
               /\ Live' = Live \cup {ev'.ret}
               /\ procs'[ev'.ret].pid \in Pids
               /\ procs'[ev'.ret]
                    = [ZeroProc EXCEPT !.pid = procs'[ev'.ret].pid]
               /\ pid_map[procs'[ev'.ret].pid] = 0
               /\ pid_map' = [pid_map EXCEPT ![procs'[ev'.ret].pid] = 1]
          ELSE /\ Live' = Live
               /\ pid_map' = pid_map
     /\ \A k \in 1 .. Len(ev'.fresh) :
          /\ ev'.fresh[k].pid \in Pids
          /\ pid_map[ev'.fresh[k].pid] = 0
          /\ ev'.fresh[k] = [ZeroProc EXCEPT !.pid = ev'.fresh[k].pid]
     /\ \A q \in Live' \cup runq' : procs'[q].pid # -1]_vars

\* C10 witness: proc_alloc took a record from the pool, found no PID and
\* gave the record back.
C10_Witness ==
  /\ ev.op = "proc_alloc" /\ ev.ret = 0
  /\ ~ev.slabfail /\ ev.victim # 0 /\ ev.owned = 0
  /\ Cardinality(Live) = PROC_MAX_NUM

\* Whether the loader rejects the image, at its header or at a segment.
Rejected(elf) ==
  ~elf.valid \/ \E k \in 1 .. Len(elf.segs) : ~elf.segs[k].ok

\* C11: recoverable failures never halt the kernel.  A proc_exec or
\* proc_clone of the initialised kernel that meets an exhausted pool, no free PID, a failing frame
\* allocation or an image the loader rejects returns failure; the leak
\* check of proc_free, when reached, reads 0, the count comparison of
\* proc_clone is not reached, and the kernel is not halted.
C11_NoPanic ==
  [][(/\ ev'.op \in {"proc_exec", "proc_clone"}
      /\ proc_cache # 0
      /\ \/ ev'.slabfail
         \/ Live = Slots
         \/ \A p \in Pids : pid_map[p] = 1
         \/ ev'.pmmfail
         \/ ev'.op = "proc_exec" /\ Rejected(ElfOf(ev'.elf))) =>
       /\ panic' = "none"
       /\ ev'.ret = (IF ev'.op = "proc_exec" THEN FALSE ELSE 0)
       /\ ev'.leak \in {-1, 0}
       /\ ev'.cmp = <<>>]_vars

\* C11 witness: the loader rejected the second segment of an image after
\* it had mapped the first, and the record was destroyed with the
\* directory, a table and a page to give back.
C11_Witness ==
  /\ ev.op = "proc_exec" /\ ev.ret = FALSE
  /\ ev.elf = 3 /\ ~ev.pmmfail /\ ~ev.slabfail
  /\ ev.owned = 3 /\ ev.leak = 0
  /\ panic = "none"

\* C12: lifecycle order.  A record that stays live keeps its state or goes
\* from RUNNING to DEAD, and that only as the subject of proc_exit; a
\* record that becomes live is UNINITIALIZED (from proc_alloc) or RUNNING
\* and registered (from a successful proc_exec or proc_clone); a record
\* that goes back to the pool was never RUNNING or is DEAD, and is not
\* known to the scheduler before or after; only RUNNING live records are
\* runnable.
C12_Lifecycle ==
  [][/\ \A q \in Slots :
          /\ (q \in Live /\ q \in Live') =>
                \/ procs'[q].state = procs[q].state
                \/ /\ procs[q].state = PROC_STATE_RUNNING
                   /\ procs'[q].state = PROC_STATE_DEAD
                   /\ ev'.op = "proc_exit" /\ ev'.proc = q
          /\ (q \notin Live /\ q \in Live') =>
                \/ procs'[q].state = 0 /\ ev'.op = "proc_alloc"
                \/ /\ procs'[q].state = PROC_STATE_RUNNING
                   /\ \/ ev'.op = "proc_exec" /\ ev'.ret = TRUE
                      \/ ev'.op = "proc_clone" /\ ev'.ret = q
                   /\ q \in runq'
          /\ (q \in Live /\ q \notin Live') =>
                /\ ev'.victim = q
                /\ procs[q].state \in {0, PROC_STATE_DEAD}
                /\ q \notin runq
     /\ ev'.vstate \in {-1, 0, PROC_STATE_DEAD}
     /\ runq' \subseteq Live'
     /\ \A q \in runq' : procs'[q].state = PROC_STATE_RUNNING]_vars

\* C12 witness: a record that was RUNNING and became DEAD has gone back to
\* the pool while another one is running.
C12_Witness ==
  /\ ev.op = "proc_free" /\ ev.vstate = PROC_STATE_DEAD
  /\ ev.victim \notin Live
  /\ \E q \in runq : procs[q].state = PROC_STATE_RUNNING

\* C13: proc_exit(proc, status) stores the status and marks the record
\* DEAD before the scheduler runs, which finds it DEAD with that status and
\* retires it; nothing else of the record changes and nothing is freed: its
\* PID bit stays set, its pool slot stays taken, the free frames, the
\* mappings and the page contents stay as they were.  The later proc_free
\* of the DEAD record is what clears the bit and gives the frames and the
\* slot back.
C13_Exit ==
  [][/\ (ev'.op = "proc_exit") =>
          /\ procs' = [procs EXCEPT ![ev'.proc].status = ev'.arg,
                                    ![ev'.proc].state = PROC_STATE_DEAD]
          /\ ev'.retired = {[proc |-> ev'.proc, status |-> ev'.arg]}
          /\ runq' = runq \ {ev'.proc}
          /\ pid_map' = pid_map /\ pid_map[procs[ev'.proc].pid] = 1
          /\ pid_gen' = pid_gen
          /\ Live' = Live /\ ev'.proc \in Live
          /\ free' = free /\ pd' = pd /\ pt' = pt /\ mem' = mem
          /\ ev'.freed = <<>> /\ ev'.victim = 0
          /\ panic' = "none"
     /\ (ev'.op = "proc_free" /\ procs[ev'.proc].state = PROC_STATE_DEAD) =>
          /\ pid_map[procs[ev'.proc].pid] = 1
          /\ pid_map' = [pid_map EXCEPT ![procs[ev'.proc].pid] = 0]
          /\ FramesOf(pd, pt, procs[ev'.proc].page_dir) \cap free = {}
          /\ free' = free \cup FramesOf(pd, pt, procs[ev'.proc].page_dir)
          /\ Live' = Live \ {ev'.proc}]_vars

\* C13 witness: a process with a whole address space exited with status 1
\* and still holds its PID, its frames and its slot.
C13_Witness ==
  /\ ev.op = "proc_exit" /\ ev.arg = 1
  /\ procs[ev.proc].state = PROC_STATE_DEAD /\ procs[ev.proc].status = 1
  /\ procs[ev.proc].mem_pages >= 6
  /\ pid_map[procs[ev.proc].pid] = 1
  /\ ev.proc \in Live \ runq

\* C14: accounting invariant.  Between operations the mem_pages of every
\* live record is the number of frames it owns: 0 without a directory,
\* else 1 for the directory plus the page tables in user-space directory
\* slots plus the pages mapped in them, each on a frame of its own; and
\* the same holds of a record at the moment proc_free starts on it, after
\* a failed or a successful build.
C14_Accounting ==
  /\ \A q \in Live :
        /\ procs[q].mem_pages = MappingsOf(pd, pt, procs[q].page_dir)
        /\ procs[q].mem_pages
             = Cardinality(FramesOf(pd, pt, procs[q].page_dir))
  /\ ev.owned # -1 =>
        /\ ev.owned = ev.vmapped
        /\ ev.owned = Cardinality(ev.vframes)

\* C14 witness: a build that failed with the directory, the image's table
\* and page, and the kernel stack's table and page in place was handed to
\* proc_free, while a fully built process is live.
C14_Witness ==
  /\ ev.op = "proc_exec" /\ ev.ret = FALSE /\ ev.pmmfail
  /\ ev.owned = 5 /\ ev.vmapped = 5
  /\ \E q \in Live : procs[q].mem_pages >= 6

\* C15: PID bitmap consistency.  In every state between operations, bit p
\* of pid_map is set if and only if a live record holds PID p: a record
\* that was released, or whose build failed, leaves no bit behind, and the
\* bit of a RUNNING or DEAD record stays set while the record is live.
C15_Bitmap ==
  \A p \in Pids :
    (pid_map[p] = 1) <=> (\E q \in Live : procs[q].pid = p)

\* C15 witness: an exec failed after its record had been given a PID and
\* was destroyed, which left that bit clear, while a DEAD record still
\* holds its PID.
C15_Witness ==
  /\ ev.op = "proc_exec" /\ ev.ret = FALSE /\ ev.owned > 0
  /\ \E q \in Live : /\ procs[q].state = PROC_STATE_DEAD
                      /\ pid_map[procs[q].pid] = 1
  /\ \E p \in Pids : pid_map[p] = 0

\* C16: alloc_pid is the round-robin reference.  With cursor c and bitmap
\* B over n PIDs it returns the first PID p among c, c+1, ..., c+n-1
\* (mod n) whose bit is clear, after probing the candidates up to it, sets
\* that bit only and leaves the cursor at (p+1) mod n; it returns -1 if and
\* only if all n bits are set, and then leaves bitmap and cursor as they
\* were.  So a PID that was just released is not issued again while
\* another clear PID comes before it from the cursor.
C16_RoundRobin ==
  [][(ev'.op = "alloc_pid") =>
       LET n == PROC_MAX_NUM
           c == pid_gen
           clear == {p \in DOMAIN pid_map : pid_map[p] = 0}
       IN /\ (ev'.ret = -1) <=> (clear = {})
          /\ IF clear = {}
             THEN /\ pid_map' = pid_map
                  /\ pid_gen' = pid_gen
                  /\ ev'.probes = n
             ELSE LET k == MinOf({j \in 0 .. (n - 1) :
                                    pid_map[(c + j) % n] = 0})
                      p == (c + k) % n
                  IN /\ ev'.ret = p
                     /\ pid_map' = [pid_map EXCEPT ![p] = 1]
                     /\ pid_gen' = (p + 1) % n
                     /\ ev'.probes = k + 1
          /\ (/\ ev.op = "free_pid"
              /\ \E f \in clear \ {ev.arg} :
                   (f + n - c) % n < (ev.arg + n - c) % n) =>
               ev'.ret # ev.arg]_vars

\* C16 witness: the scan probed the set bits of PIDs 6 and 7, wrapped
\* round and returned PID 0 as its third candidate, while PIDs 1 and 5 are
\* clear.
C16_Witness ==
  /\ ev.op = "alloc_pid" /\ ev.ret = 0 /\ ev.probes = 3
  /\ pid_map[1] = 0 /\ pid_map[5] = 0 /\ pid_map[6] = 1 /\ pid_map[7] = 1
  /\ pid_gen = 1

\* C17: no half-built record is ever live.  A call passes at most one
\* record to sched_add, and only a proc_exec or proc_clone that succeeds
\* does: the record is the one it acquired (not live before, so never
\* registered before), and when it is passed it is RUNNING, has its PID,
\* its address space with the kernel's mappings entered, and is the record
\* as the call leaves it.  A proc_exec or proc_clone that fails registers
\* nothing, leaves the runnable set and the pool as they were, and the
\* record it destroyed, if it had one, was never RUNNING.
C17_NoHalfBuilt ==
  [][/\ Len(ev'.added) <= 1
     /\ (ev'.added # <<>>) =>
          LET a == ev'.added[1] IN
          /\ \/ ev'.op = "proc_exec" /\ ev'.ret = TRUE
             \/ ev'.op = "proc_clone" /\ ev'.ret = a.proc
          /\ a.proc \notin Live /\ a.proc \notin runq
          /\ a.proc \in Live'
          /\ runq' = runq \cup {a.proc}
          /\ a.rec.state = PROC_STATE_RUNNING
          /\ a.rec.pid \in Pids /\ pid_map'[a.rec.pid] = 1
          /\ a.rec.page_dir # 0
          /\ KernelPde \in DOMAIN pd'[a.rec.page_dir]
          /\ a.rec.kernel_stack = PROC_KERNEL_STACK
          /\ a.rec.user_stack = PROC_USER_STACK
          /\ a.rec.mem_pages = MappingsOf(pd', pt', a.rec.page_dir)
          /\ procs'[a.proc] = a.rec
          /\ ev'.victim = 0
     /\ (\/ ev'.op = "proc_exec" /\ ev'.ret = TRUE
         \/ ev'.op = "proc_clone" /\ ev'.ret # 0) => ev'.added # <<>>
     /\ (\/ ev'.op = "proc_exec" /\ ev'.ret = FALSE
         \/ ev'.op = "proc_clone" /\ ev'.ret = 0) =>
          /\ ev'.added = <<>>
          /\ runq' = runq
          /\ Live' = Live
          /\ ev'.vstate \in {-1, 0}
          /\ ev'.victim # 0 => ev'.victim \notin Live' \cup runq']_vars

\* C17 witness: a clone was registered, RUNNING and with its parent set,
\* by the proc_clone that returned it.
C17_Witness ==
  /\ ev.op = "proc_clone" /\ Len(ev.added) = 1
  /\ ev.added[1].proc = ev.ret
  /\ ev.added[1].rec.state = PROC_STATE_RUNNING
  /\ ev.added[1].rec.parent = ev.proc
  /\ ev.ret \in runq

\* The frames proc_free gave back, in order: the last ones of the call.
FreedByDestroy(e) ==
  SubSeq(e.freed, Len(e.freed) - e.reclaimed + 1, Len(e.freed))

\* The place of frame f in the sequence of frames fr.
PosIn(fr, f) == CHOOSE i \in 1 .. Len(fr) : fr[i] = f

\* C18: destroy touches only what the process owns.  Whenever proc_free
\* ran, the frames it gave back are the frames the record's address space
\* held below the kernel's half, each given back once; none is the
\* kernel's page table or a kernel page, which stay mapped and intact, and
\* none is a frame of another live record, whose mappings and contents
\* stay as they were.  In the walk every page is given back before its
\* page table and the directory is given back last.
C18_DestroyOwned ==
  [][(ev'.victim # 0) =>
       LET fr == FreedByDestroy(ev')
           D == {fr[i] : i \in 1 .. Len(fr)}
       IN /\ D = ev'.vframes
          /\ Len(fr) = Cardinality(ev'.vframes)
          /\ ~ev'.refree
          /\ D \cap KernelFrames = {}
          /\ free' \cap KernelFrames = {}
          /\ pt'[KernelTable] = pt[KernelTable]
          /\ mem'[KernelPage] = mem[KernelPage]
          /\ \A q \in Live \ {ev'.victim} :
               /\ FramesOf(pd, pt, procs[q].page_dir) \cap D = {}
               /\ q \in Live' /\ procs'[q] = procs[q]
               /\ \A f \in FramesOf(pd, pt, procs[q].page_dir) :
                    /\ f \notin free'
                    /\ pd'[f] = pd[f] /\ pt'[f] = pt[f] /\ mem'[f] = mem[f]
          /\ (ev'.op = "proc_free" /\ procs[ev'.proc].page_dir # 0) =>
               LET dir == procs[ev'.proc].page_dir IN
               /\ D = FramesOf(pd, pt, dir)
               /\ free' = free \cup D
               /\ fr[Len(fr)] = dir
               /\ \A tab \in TablesOf(pd, dir) :
                    \A i \in DOMAIN pt[tab] :
                      PosIn(fr, pt[tab][i].page) < PosIn(fr, tab)]_vars

\* C18 witness: a process with the kernel's mappings in its directory was
\* destroyed while another process with an address space is live; its
\* seven frames came back, the kernel's did not.
C18_Witness ==
  /\ ev.op = "proc_free" /\ ev.reclaimed = 7
  /\ Len(ev.freed) = 7 /\ ev.vframes \subseteq free
  /\ KernelTable \notin free
  /\ \E q \in Live : /\ procs[q].page_dir # 0
                      /\ KernelPde \in DOMAIN pd[procs[q].page_dir]

\* C19: stack separation.  KERNEL_BASE is a multiple of the span of a page
\* table, and in every record that has its stacks the page of the kernel
\* stack (at kernel_stack - PAGE_SIZE) and the page of the user stack (at
\* user_stack - PAGE_SIZE) are mapped through different directory slots,
\* both below the kernel's, hence through different page tables.
C19_StackSeparation ==
  /\ KERNEL_BASE % (NUM_PTE * PAGE_SIZE) = 0
  /\ \A q \in Live :
       procs[q].kernel_stack # 0 =>
         LET dir == procs[q].page_dir
             kpage == procs[q].kernel_stack - PAGE_SIZE
             upage == procs[q].user_stack - PAGE_SIZE
         IN /\ procs[q].kernel_stack = PROC_KERNEL_STACK
            /\ procs[q].user_stack = PROC_USER_STACK
            /\ PdeOf(kpage) # PdeOf(upage)
            /\ PdeOf(kpage) < KernelPde /\ PdeOf(upage) < KernelPde
            /\ PdeOf(kpage) \in DOMAIN pd[dir]
            /\ PdeOf(upage) \in DOMAIN pd[dir]
            /\ pd[dir][PdeOf(kpage)].tab # pd[dir][PdeOf(upage)].tab
            /\ PteOf(kpage) \in DOMAIN pt[pd[dir][PdeOf(kpage)].tab]
            /\ PteOf(upage) \in DOMAIN pt[pd[dir][PdeOf(upage)].tab]

\* C19 witness: a process whose image lies in the directory slot of the
\* user stack runs, with its kernel stack in the last slot below the
\* kernel's and its user stack in the slot before.
C19_Witness ==
  \E q \in runq :
    /\ procs[q].entry = PROC_USER_STACK - 2 * PAGE_SIZE
    /\ PdeOf(procs[q].kernel_stack - PAGE_SIZE) = KernelPde - 1
    /\ PdeOf(procs[q].user_stack - PAGE_SIZE) = KernelPde - 2
    /\ procs[q].mem_pages = 6

\* Every PID that is out, held by a CPU or being returned by a call, has
\* its bit set.
RaceMarked ==
  \A a \in Cpus :
    /\ \A p \in cpu[a].held : pid_map[p] = 1
    /\ (cpu[a].pc = "done" /\ cpu[a].ret # -1) => pid_map[cpu[a].ret] = 1

\* No PID is out twice: no two CPUs hold the same PID, and a PID a call is
\* returning is held by no CPU and returned by no other call.
RaceUnique ==
  /\ \A a \in Cpus : \A b \in Cpus \ {a} :
       cpu[a].held \cap cpu[b].held = {}
  /\ \A a \in Cpus :
       (cpu[a].pc = "done" /\ cpu[a].ret # -1) =>
         \A b \in Cpus :
           /\ cpu[a].ret \notin cpu[b].held
           /\ (b # a /\ cpu[b].pc = "done") => cpu[b].ret # cpu[a].ret

\* C20: the PID allocator needs mutual exclusion.  With alloc_pid and
\* free_pid run access by access on two CPUs and no lock, in either order
\* of accesses a build gives alloc_pid, as long as no two
\* calls have been in progress at the same time no PID is out twice and
\* every PID that is out has its bit set; the witness is the state two
\* overlapping calls of alloc_pid reach, both returning the same PID.
C20_AtomicUnique == ~overlap => (RaceUnique /\ RaceMarked)

\* C20 witness: two calls that overlapped are both returning PID 0.
C20_Witness ==
  /\ overlap
  /\ \A c \in Cpus : cpu[c].pc = "done" /\ cpu[c].ret = 0
  /\ ~RaceUnique

=============================================================================
